---- MODULE Spec2Model ----
(***************************************************************************)
(* NurdViewer: the signaling relay (signaling_server.py), the screen-share *)
(* sender in the initiator role (sender.py) and the receiver in the        *)
(* responder role (receiver.py).                                           *)
(*                                                                         *)
(* Channel "A" is the WebSocket of a sender.py process, channel "B" that   *)
(* of a receiver.py process, channel "C" that of any other WebSocket       *)
(* client of the relay (the relay authenticates nobody).  One relay task   *)
(* (websocket_endpoint) runs per channel; tasks interleave only at their   *)
(* awaits, so each action below is the code between two awaits.            *)
(*                                                                         *)
(* Spec        the relay under any clients, in two rooms                   *)
(* Session     a sender, a receiver and a third client in one room, with   *)
(*             failures of connections and of the transport                *)
(* FairSession a sender and a receiver alone, nothing failing, every step  *)
(*             weakly fair                                                 *)
(* FairRelay   Spec with the relay's own steps weakly fair                 *)
(* Fifo        the relay in one room, the deliveries from one channel to   *)
(*             another logged                                              *)
(* Viewer      FairSession's steps with track events and display tasks     *)
(* FilterSpec  remove_rtx_from_sdp applied to every short document         *)
(* LeaveSpec   the relay's finally block applied to every small registry   *)
(*                                                                         *)
(* The client's connect, the relay's accept and the join are one step;     *)
(* createOffer/createAnswer and the setLocalDescription that follows are   *)
(* one step (the create call changes no state).                            *)
(***************************************************************************)
EXTENDS Integers, Sequences, FiniteSets, TLC

\* ------------------------------------------------------------------ bounds
\* negotiationneeded events delivered to the sender besides the initial call
MaxTriggers == 1
\* text frames a client written by somebody else sends
MaxSends == 1
\* text frames the channel whose deliveries are logged sends
MaxBurst == 2
\* track events the receiver's RTCPeerConnection emits
MaxTrackEvents == 2
\* tasks running consume_video
MaxConsumers == 1
\* pieces (chunks of text and line terminators) of a document given to the
\* SDP filter
MaxDocLen == 3

\* ------------------------------------------------------------ universe
Initiator == "A"
Responder == "B"
Other == "C"
Chan == {Initiator, Responder, Other}
\* sender.py:119, receiver.py:131  the default of --room
TestRoom == "testroom"
RoomIds == {TestRoom, "lobby"}
NoRoom == "-"

\* ------------------------------------------------- session descriptions
\* A session description is a text: a sequence of pieces, each a chunk of
\* text without a line terminator, or one of the characters CR and LF.
CR == "<CR>"
LF == "<LF>"
\* chunks that hold the substrings the filter looks for
RtxLine == "a=rtpmap:97 video/rtx/90000"
AptLine == "a=fmtp:97 apt=96"
\* what createOffer and createAnswer return: CRLF after every line
OfferSdp ==
  <<"m=video", CR, LF, "a=sendonly", CR, LF, RtxLine, CR, LF, AptLine, CR, LF>>
AnswerSdp == <<"m=video", CR, LF, "a=recvonly", CR, LF>>
\* the answer of an implementation that advertises the retransmission codec
RtxAnswerSdp == <<"m=video", CR, LF, RtxLine, CR, LF, AptLine, CR, LF>>

\* index of the first line terminator of text d, 0 when it has none
FirstBreak(d) ==
  LET at == {i \in 1..Len(d) : d[i] \in {CR, LF}}
  IN  IF at = {} THEN 0 ELSE CHOOSE i \in at : \A k \in at : i <= k

\* length of the terminator that starts at index k: CR LF is one terminator
BreakLen(d, k) == IF d[k] = CR /\ k < Len(d) /\ d[k + 1] = LF THEN 2 ELSE 1

\* the indices of text d where a line terminator starts: CR LF is one
\* terminator
BreakStarts(d) ==
  {k \in 1..Len(d) : d[k] = CR \/ (d[k] = LF /\ (k = 1 \/ d[k - 1] # CR))}

\* the indices where a line starts: the first piece, and every piece that
\* follows a terminator; text after the last terminator is a line only when
\* it is not empty
LineStarts(d) ==
  {s \in 1..Len(d) : s = 1 \/ \E k \in BreakStarts(d) : s = k + BreakLen(d, k)}

\* the index of the last piece of the line that starts at index s
LineEnd(d, s) ==
  LET ends == {k \in BreakStarts(d) : k >= s} \cup {Len(d) + 1}
  IN  (CHOOSE k \in ends : \A e \in ends : k <= e) - 1

\* receiver.py:17  str.splitlines(): the lines without their terminators; CR,
\* LF and CR LF end a line
splitlines(d) ==
  LET starts == LineStarts(d)
  IN  [i \in 1..Cardinality(starts) |->
        LET s == CHOOSE t \in starts : Cardinality({u \in starts : u < t}) = i - 1
        IN  SubSeq(d, s, LineEnd(d, s))]

\* receiver.py:28  "\r\n".join(new_lines)
RECURSIVE JoinCRLF(_)
JoinCRLF(lines) ==
  IF lines = <<>> THEN <<>>
  ELSE IF Len(lines) = 1 THEN lines[1]
  ELSE lines[1] \o <<CR, LF>> \o JoinCRLF(Tail(lines))

\* receiver.py:22  "video/rtx" in line or "apt=" in line
IsRtxLine(line) == \E i \in 1..Len(line) : line[i] = RtxLine \/ line[i] = AptLine

\* receiver.py:10-30
remove_rtx_from_sdp(sdp) ==
  JoinCRLF(SelectSeq(splitlines(sdp), LAMBDA line : ~IsRtxLine(line)))

\* ------------------------------------------------------ wire messages
\* A text frame.  valid: json.loads succeeds; type = "" : no "type" key;
\* hasSdp: the "sdp" key is present.
Msg(valid, type, hasSdp, sdp) ==
  [valid |-> valid, type |-> type, hasSdp |-> hasSdp, sdp |-> sdp]
\* sender.py:72  json.dumps({"type": "offer", "sdp": ...})
OfferPayload == Msg(TRUE, "offer", TRUE, OfferSdp)
\* mutant: the receiver tags its reply as an offer
AnswerPayloadTaggedOffer == Msg(TRUE, "offer", TRUE, AnswerSdp)

\* receiver.py:73  json.dumps({"type": "answer", "sdp": ...})
AnswerPayload == Msg(TRUE, "answer", TRUE, AnswerSdp)
\* an answer written by another implementation
RtxAnswer == Msg(TRUE, "answer", TRUE, RtxAnswerSdp)
NotJson == Msg(FALSE, "", FALSE, <<>>)
NoType == Msg(TRUE, "", TRUE, AnswerSdp)
AnswerNoSdp == Msg(TRUE, "answer", FALSE, <<>>)
OfferNoSdp == Msg(TRUE, "offer", FALSE, <<>>)
ByeMsg == Msg(TRUE, "bye", TRUE, AnswerSdp)
\* what a third client in the room of a sender and a receiver may send
OtherMsgs == {RtxAnswer, NotJson, NoType, AnswerNoSdp, OfferNoSdp, ByeMsg}
\* what clients send when only the relay is looked at: it never parses a frame
Frames == {OfferPayload}

\* spec 6, the wire format: a message is well formed when it parses and
\* carries type in {offer, answer} and an sdp.
WellFormed(m) == m.valid /\ m.type \in {"offer", "answer"} /\ m.hasSdp

VARIABLES
  rooms,      \* signaling_server.py:10  room id -> list of channels
  hpc,        \* relay task of a channel: "none", "recv", "send", "done"
  hroom,      \* the task's room_id parameter
  hidx,       \* the for loop's list iterator: index of the next element
  htgt,       \* the connection whose send_text the task is awaiting
  hdata,      \* the message being relayed
  hexit,      \* how the task left its loop
  hleft,      \* how many times the task removed its channel from a room
  hsent,      \* channels the broadcast under way has sent to
  hstay,      \* members at the start of that broadcast that have not left
  hmissed,    \* members all through the task's last broadcast it never sent to
  hfailed,    \* the connection whose send_text raised in the task
  closed,     \* the channel's connection is closed (by either end)
  toRelay,    \* frames a client sent that its relay task has not read
  toClient,   \* frames the relay sent that the client has not read
  ppc,        \* position of the peer's run() coroutine
  tpc,        \* position of the event-driven on_negotiationneeded task
  ntrig,      \* negotiationneeded events fired
  nsent,      \* frames a client has sent with ClientSend
  sig,        \* RTCPeerConnection.signalingState of each peer
  remote,     \* installed remote description: <<>> or <<[type, sdp]>>
  inflight,   \* offers the sender has sent since its last installed answer
  offersSent, \* offers the sender has sent in all
  gotBad,     \* the peer has read a message that is not well formed
  nonOffer,   \* the receiver has read a message that is not tagged offer
  recvd,      \* the description a peer received and installed: <<>> or <<sdp>>
  answersSent, \* answers the receiver has sent
  lateJoin,   \* <<n>> while the receiver waits for its one message, having
              \* joined when the relay was through with all n >= 1 offers sent
              \* until then; <<>> otherwise
  watched,    \* <<>>, or <<S, R>>: the deliveries from S to R are logged
  dlog,       \* the logged deliveries: S's frames by their number, as R got them
  ntrack,     \* track events the receiver's RTCPeerConnection has emitted
  disp,       \* the display tasks started, each [impl, pc, how, released]
  window,     \* an OpenCV window is on the screen
  fcall,      \* a call of remove_rtx_from_sdp: its argument and what came back
  lcall       \* a call of the relay's finally block on a registry

vars ==
  <<rooms, hpc, hroom, hidx, htgt, hdata, hexit, hleft, hsent, hstay, hmissed,
    hfailed, closed, toRelay, toClient, ppc, tpc, ntrig, nsent, sig, remote, inflight,
    offersSent, gotBad, nonOffer, recvd, answersSent, lateJoin, watched, dlog,
    ntrack, disp, window, fcall, lcall>>

relayVars ==
  <<rooms, hpc, hroom, hidx, htgt, hdata, hexit, hleft, hsent, hstay, hmissed, hfailed>>
\* what the peers' coroutines have seen and done
seenVars == <<nonOffer, recvd, answersSent, lateJoin>>
peerVars ==
  <<ppc, tpc, ntrig, nsent, sig, remote, inflight, offersSent, gotBad, seenVars>>
\* the delivery log's subject, the display side of the receiver and the
\* calls of the pure functions
auxVars == <<watched, ntrack, disp, window, fcall, lcall>>
sideVars == <<dlog, auxVars>>
\* the relay, the connections and the peers
progVars == <<relayVars, closed, toRelay, toClient, peerVars, dlog>>

Range(s) == {s[i] : i \in 1..Len(s)}

\* ------------------------------------------------------ room registry
\* signaling_server.py:10  rooms = {}
NoRooms == [r \in {} |-> <<>>]

\* rooms.get(room_id, [])
Members(rs, rid) == IF rid \in DOMAIN rs THEN rs[rid] ELSE <<>>

\* signaling_server.py:23-28  create the list if absent, then append
Join(rs, rid, ws) ==
  [r \in DOMAIN rs \cup {rid} |-> IF r = rid THEN Append(Members(rs, rid), ws) ELSE rs[r]]

\* list.remove: drops the first element equal to ws
RemoveFirst(s, ws) ==
  LET i == CHOOSE k \in 1..Len(s) : s[k] = ws /\ \A j \in 1..(k - 1) : s[j] # ws
  IN  SubSeq(s, 1, i - 1) \o SubSeq(s, i + 1, Len(s))

\* mutant: the finally block forgets to remove the channel
RemoveMemberNever(rs, rid, ws) == rs

\* signaling_server.py:55-56
RemoveMember(rs, rid, ws) ==
  IF ws \in Range(Members(rs, rid))
  THEN [rs EXCEPT ![rid] = RemoveFirst(@, ws)]
  ELSE rs

\* signaling_server.py:59-60  `not rooms.get(room_id)` is true for a missing
\* key too, and then `del rooms[room_id]` raises KeyError
DelRaises(rs, rid) == rid \notin DOMAIN rs

\* mutant: the finally block deletes the room whoever is still in it
DelWhateverIsLeft(rs, rid) == [r \in DOMAIN rs \ {rid} |-> rs[r]]

\* mutant: an emptied room is kept in the registry
DelIfEmptyNever(rs, rid) == rs

\* signaling_server.py:59-60  the room is deleted when its list is empty
DelIfEmpty(rs, rid) ==
  IF rid \in DOMAIN rs /\ rs[rid] = <<>>
  THEN [r \in DOMAIN rs \ {rid} |-> rs[r]]
  ELSE rs

\* mutant: the finally block deletes an empty room and removes nobody
LeaveRemovesNobody(rs, rid, ws) == DelIfEmpty(rs, rid)

\* signaling_server.py:53-61  the finally block
Leave(rs, rid, ws) == DelIfEmpty(RemoveMember(rs, rid, ws), rid)

\* mutant: the iterator hands out the element it handed out last once more
NextTargetAgain(members, i, ws) ==
  LET from == IF i > 1 THEN i - 1 ELSE i
      later == {j \in from..Len(members) : members[j] # ws}
  IN  IF later = {} THEN 0 ELSE CHOOSE j \in later : \A k \in later : j <= k

\* mutant: the loop lacks `if connection != websocket`
NextTargetEcho(members, i, ws) == IF i <= Len(members) THEN i ELSE 0

\* signaling_server.py:41-43  the list iterator: the first element at index
\* >= i that is not the sender itself, 0 when the iterator is exhausted.  The
\* iterator reads the live list, so members appended or removed while the
\* task is suspended shift what it sees.
NextTarget(members, i, ws) ==
  LET later == {j \in i..Len(members) : members[j] # ws}
  IN  IF later = {} THEN 0 ELSE CHOOSE j \in later : \A k \in later : j <= k

\* ------------------------------------------------------------- Init
\* no function has been called
NoCall == [state |-> "none"]

\* the relay has just started and no peer has
Start ==
  /\ rooms = NoRooms
  /\ hpc = [c \in Chan |-> "none"]
  /\ hroom = [c \in Chan |-> NoRoom]
  /\ hidx = [c \in Chan |-> 0]
  /\ htgt = [c \in Chan |-> c]
  /\ hdata = [c \in Chan |-> NotJson]
  /\ hexit = [c \in Chan |-> "none"]
  /\ hleft = [c \in Chan |-> 0]
  /\ hsent = [c \in Chan |-> {}]
  /\ hstay = [c \in Chan |-> {}]
  /\ hmissed = [c \in Chan |-> {}]
  /\ hfailed = [c \in Chan |-> {}]
  /\ closed = [c \in Chan |-> FALSE]
  /\ toRelay = [c \in Chan |-> <<>>]
  /\ toClient = [c \in Chan |-> <<>>]
  /\ ppc = [c \in Chan |-> "start"]
  /\ tpc = "idle"
  /\ ntrig = 0
  /\ nsent = [c \in Chan |-> 0]
  /\ sig = [c \in Chan |-> "stable"]
  /\ remote = [c \in Chan |-> <<>>]
  /\ inflight = 0
  /\ offersSent = 0
  /\ gotBad = [c \in Chan |-> FALSE]
  /\ nonOffer = FALSE
  /\ recvd = [c \in Chan |-> <<>>]
  /\ answersSent = 0
  /\ lateJoin = <<>>
  /\ dlog = <<>>
  /\ ntrack = 0
  /\ disp = <<>>
  /\ window = FALSE

Init ==
  /\ Start
  /\ watched = <<>>
  /\ fcall = NoCall
  /\ lcall = NoCall

\* ---------------------------------------------- relay: websocket_endpoint
\* The task resumes its for loop at iterator index i, having sent to the
\* channels in sent; stay are the members since the loop began.  It runs to the
\* next send_text (and suspends there) or to the end of the list (and goes back
\* to receive_text).
ResumeLoop(c, i, data, sent, stay) ==
  LET members == Members(rooms, hroom[c])
      j == NextTarget(members, i, c)
  IN  IF j = 0
      THEN /\ hpc' = [hpc EXCEPT ![c] = "recv"]
           /\ hidx' = [hidx EXCEPT ![c] = 0]
           /\ htgt' = [htgt EXCEPT ![c] = c]
           /\ hdata' = [hdata EXCEPT ![c] = NotJson]
           /\ hsent' = [hsent EXCEPT ![c] = {}]
           /\ hstay' = [hstay EXCEPT ![c] = {}]
           /\ hmissed' = [hmissed EXCEPT ![c] = stay \ sent]
      ELSE /\ hpc' = [hpc EXCEPT ![c] = "send"]
           /\ hidx' = [hidx EXCEPT ![c] = j + 1]
           /\ htgt' = [htgt EXCEPT ![c] = members[j]]
           /\ hdata' = [hdata EXCEPT ![c] = data]
           /\ hsent' = [hsent EXCEPT ![c] = sent]
           /\ hstay' = [hstay EXCEPT ![c] = stay]
           /\ hmissed' = [hmissed EXCEPT ![c] = {}]

\* signaling_server.py:19-29  accept, then join; the client's connect returns
StartHandler(c, rid) ==
  /\ hpc[c] = "none"
  /\ rooms' = Join(rooms, rid, c)
  /\ hroom' = [hroom EXCEPT ![c] = rid]
  /\ hpc' = [hpc EXCEPT ![c] = "recv"]
  /\ UNCHANGED <<hidx, htgt, hdata, hexit, hleft, hsent, hstay, hmissed, hfailed>>

\* signaling_server.py:47-61  the task leaves its loop for reason why and runs
\* the finally block; the server then closes the connection, and the frames
\* the task has not read are gone with it
Cleanup(c, why) ==
  /\ rooms' = Leave(rooms, hroom[c], c)
  /\ hleft' = [hleft EXCEPT ![c] =
                 IF c \in Range(Members(rooms, hroom[c])) THEN @ + 1 ELSE @]
  /\ hexit' = [hexit EXCEPT ![c] =
                 IF DelRaises(RemoveMember(rooms, hroom[c], c), hroom[c])
                 THEN "keyerror" ELSE why]
  /\ hpc' = [hpc EXCEPT ![c] = "done"]
  /\ hstay' = [d \in Chan |-> IF d = c THEN {} ELSE hstay[d] \ {c}]
  /\ hsent' = [hsent EXCEPT ![c] = {}]
  /\ hmissed' = [hmissed EXCEPT ![c] =
                   IF why = "send_error" THEN (hstay[c] \ hsent[c]) \ {htgt[c]} ELSE {}]
  /\ hidx' = [hidx EXCEPT ![c] = 0]
  /\ htgt' = [htgt EXCEPT ![c] = c]
  /\ hdata' = [hdata EXCEPT ![c] = NotJson]
  /\ closed' = [closed EXCEPT ![c] = TRUE]
  /\ toRelay' = [toRelay EXCEPT ![c] = <<>>]

\* signaling_server.py:37-45  receive_text returns a frame; the for loop starts
Receive(c) ==
  /\ hpc[c] = "recv"
  /\ toRelay[c] # <<>>
  /\ toRelay' = [toRelay EXCEPT ![c] = Tail(@)]
  /\ ResumeLoop(c, 1, Head(toRelay[c]), {}, Range(Members(rooms, hroom[c])) \ {c})
  /\ UNCHANGED <<rooms, hroom, hexit, hleft, hfailed, closed, toClient>>
  /\ UNCHANGED peerVars
  /\ UNCHANGED sideVars

\* A frame sent to t reaches an inbox when the connection is open; a client in
\* position "open" reads each frame as it arrives, so none is kept for it.
Queues(t) == ~closed[t] /\ ppc[t] # "open"

\* The number, counted from 1 in the order the client sent them, of the frame
\* the task of client c is relaying: the task has read every frame sent but
\* those still queued.
FrameNumber(c) == nsent[c] - Len(toRelay[c])

\* signaling_server.py:45-46  send_text returns; the loop goes on.  A frame
\* sent to a connection that is already closed is lost without an error when
\* the server has not noticed the close yet.
SendDone(c) ==
  /\ hpc[c] = "send"
  /\ toClient' = [toClient EXCEPT ![htgt[c]] =
                    IF Queues(htgt[c]) THEN Append(@, hdata[c]) ELSE @]
  /\ ResumeLoop(c, hidx[c], hdata[c], hsent[c] \cup {htgt[c]}, hstay[c])
  /\ dlog' = IF watched = <<c, htgt[c]>> /\ ~closed[htgt[c]]
             THEN Append(dlog, FrameNumber(c))
             ELSE dlog
  /\ UNCHANGED <<rooms, hroom, hexit, hleft, hfailed, closed, toRelay>>
  /\ UNCHANGED peerVars
  /\ UNCHANGED auxVars

\* signaling_server.py:45,50-61  send_text raises on a closed connection; the
\* exception leaves the for loop and the while loop
SendRaises(c) ==
  /\ hpc[c] = "send"
  /\ closed[htgt[c]]
  /\ hfailed' = [hfailed EXCEPT ![c] = {htgt[c]}]
  /\ Cleanup(c, "send_error")
  /\ UNCHANGED <<hroom, toClient>>
  /\ UNCHANGED peerVars
  /\ UNCHANGED sideVars

\* signaling_server.py:37,47-61  receive_text raises WebSocketDisconnect
Disconnected(c) ==
  /\ hpc[c] = "recv"
  /\ toRelay[c] = <<>>
  /\ closed[c]
  /\ Cleanup(c, "disconnect")
  /\ UNCHANGED <<hroom, hfailed, toClient>>
  /\ UNCHANGED peerVars
  /\ UNCHANGED sideVars

\* signaling_server.py:31-61  the task is cancelled at an await (server
\* shutdown): CancelledError passes both except clauses, finally runs
Cancelled(c) ==
  /\ hpc[c] \in {"recv", "send"}
  /\ Cleanup(c, "cancel")
  /\ UNCHANGED <<hroom, hfailed, toClient>>
  /\ UNCHANGED peerVars
  /\ UNCHANGED sideVars

\* ------------------------------------------------------------ clients
negVars == <<tpc, ntrig, sig, remote, inflight, offersSent, gotBad, seenVars>>

\* The peer's side of leaving `async with websockets.connect(...)`, or of the
\* process ending: the connection closes, and what it had not read is gone.
PeerExit(c) ==
  /\ ppc' = [ppc EXCEPT ![c] = "exited"]
  /\ closed' = [closed EXCEPT ![c] = TRUE]
  /\ toClient' = [toClient EXCEPT ![c] = <<>>]
  /\ tpc' = IF c = Initiator THEN "idle" ELSE tpc

\* websocket.send(payload): raises ConnectionClosed on a closed connection
CanSend(c) == ~closed[c]

\* a client connects to /ws/{rid}; signaling_server.py:14-29
Open(c, rid) ==
  /\ ppc[c] = "start"
  /\ StartHandler(c, rid)
  /\ ppc' = [ppc EXCEPT ![c] = "open"]
  /\ UNCHANGED <<closed, toRelay, toClient, nsent>>
  /\ UNCHANGED negVars
  /\ UNCHANGED sideVars

\* how many frames client c may send: more for the one whose deliveries are
\* logged
SendLimit(c) == IF watched # <<>> /\ c = watched[1] THEN MaxBurst ELSE MaxSends

\* the client sends a text frame; signaling_server.py:37 receives it
ClientSend(c, m) ==
  /\ ppc[c] = "open"
  /\ CanSend(c)
  /\ nsent[c] < SendLimit(c)
  /\ nsent' = [nsent EXCEPT ![c] = @ + 1]
  /\ toRelay' = [toRelay EXCEPT ![c] = Append(@, m)]
  /\ UNCHANGED <<closed, toClient, ppc>>
  /\ UNCHANGED negVars
  /\ UNCHANGED relayVars
  /\ UNCHANGED sideVars

\* the client closes, or its process is interrupted (KeyboardInterrupt,
\* sender.py:141, receiver.py:153): the connection closes
Kill(c) ==
  /\ ppc[c] \notin {"start", "exited"}
  /\ PeerExit(c)
  /\ UNCHANGED <<toRelay, ntrig, nsent, sig, remote, inflight,
                 offersSent, gotBad, seenVars>>
  /\ UNCHANGED relayVars
  /\ UNCHANGED sideVars

\* ------------------------------------------------- sender.py (initiator)
\* sender.py:50-82  connect (the relay accepts and joins), add the track,
\* register on_negotiationneeded and call it once
SenderConnect ==
  /\ ppc[Initiator] = "start"
  /\ StartHandler(Initiator, TestRoom)
  /\ ppc' = [ppc EXCEPT ![Initiator] = "offer"]
  /\ UNCHANGED <<closed, toRelay, toClient, nsent>>
  /\ UNCHANGED negVars
  /\ UNCHANGED sideVars

\* RTCPeerConnection.setLocalDescription(offer), sender.py:69: allowed in
\* stable and in have-local-offer
SigAfterLocalOffer(st) == "have-local-offer"

\* RTCPeerConnection.setRemoteDescription(answer), sender.py:95: accepted only
\* while a local offer is pending; otherwise it raises InvalidStateError
AcceptsAnswer(st) == st = "have-local-offer"

\* sender.py:90  data.get("type") == "answer"
IsAnswer(m) == m.valid /\ m.type = "answer"

\* sender.py:72-75  where on_negotiationneeded(task) stands: task "run" is the
\* initial call inside run(), task "event" the event-driven one
NegPos(task) == IF task = "run" THEN ppc[Initiator] ELSE tpc

\* on_negotiationneeded moves on to position pos; the initial call returns to
\* run(), whose next statement is the message loop
NegGoto(task, pos) ==
  IF task = "run"
  THEN /\ ppc' = [ppc EXCEPT ![Initiator] = IF pos = "idle" THEN "loop" ELSE pos]
       /\ tpc' = tpc
  ELSE /\ tpc' = pos
       /\ ppc' = ppc

\* sender.py:66-69  createOffer and setLocalDescription(offer) return.  The
\* handler has no guard: it does not look at whether an offer is under way.
MakeOffer(task) ==
  /\ ppc[Initiator] \notin {"start", "exited"}
  /\ NegPos(task) = "offer"
  /\ NegGoto(task, "sendOffer")
  /\ sig' = [sig EXCEPT ![Initiator] = SigAfterLocalOffer(@)]
  /\ UNCHANGED <<closed, toRelay, toClient, ntrig, nsent, remote, inflight,
                 offersSent, gotBad, seenVars>>
  /\ UNCHANGED relayVars
  /\ UNCHANGED sideVars

\* sender.py:72-78  the offer is sent; or send raises (connection closed) and
\* the except clause swallows it
SendOffer(task) ==
  /\ ppc[Initiator] \notin {"start", "exited"}
  /\ NegPos(task) = "sendOffer"
  /\ NegGoto(task, "idle")
  /\ IF CanSend(Initiator)
     THEN /\ toRelay' = [toRelay EXCEPT ![Initiator] = Append(@, OfferPayload)]
          /\ inflight' = inflight + 1
          /\ offersSent' = offersSent + 1
     ELSE UNCHANGED <<toRelay, inflight, offersSent>>
  /\ UNCHANGED <<closed, toClient, ntrig, nsent, sig, remote, gotBad, seenVars>>
  /\ UNCHANGED relayVars
  /\ UNCHANGED sideVars

\* sender.py:66-69,77-78  createOffer or setLocalDescription raises: logged
OfferFails(task) ==
  /\ ppc[Initiator] \notin {"start", "exited"}
  /\ NegPos(task) = "offer"
  /\ NegGoto(task, "idle")
  /\ UNCHANGED <<closed, toRelay, toClient, ntrig, nsent, sig, remote,
                 inflight, offersSent, gotBad, seenVars>>
  /\ UNCHANGED relayVars
  /\ UNCHANGED sideVars

\* sender.py:61-63  a negotiationneeded event starts on_negotiationneeded as a
\* task of its own
Trigger ==
  /\ ppc[Initiator] \notin {"start", "exited"}
  /\ tpc = "idle"
  /\ ntrig < MaxTriggers
  /\ ntrig' = ntrig + 1
  /\ tpc' = "offer"
  /\ UNCHANGED <<closed, toRelay, toClient, ppc, nsent, sig, remote, inflight,
                 offersSent, gotBad, seenVars>>
  /\ UNCHANGED relayVars
  /\ UNCHANGED sideVars

\* mutant: the loop lacks the `break` after an installed answer
SenderHandleNoBreak(accept) ==
  LET m == Head(toClient[Initiator])
      install == IsAnswer(m) /\ m.hasSdp /\ AcceptsAnswer(sig[Initiator]) /\ accept
  IN  /\ ppc[Initiator] = "loop"
      /\ toClient[Initiator] # <<>>
      /\ toClient' = [toClient EXCEPT ![Initiator] = Tail(@)]
      /\ gotBad' = [gotBad EXCEPT ![Initiator] = @ \/ ~WellFormed(m)]
      /\ IF install
         THEN /\ remote' = [remote EXCEPT ![Initiator] =
                              <<[type |-> m.type, sdp |-> m.sdp]>>]
              /\ recvd' = [recvd EXCEPT ![Initiator] = <<m.sdp>>]
              /\ sig' = [sig EXCEPT ![Initiator] = "stable"]
              /\ inflight' = 0
         ELSE UNCHANGED <<remote, recvd, sig, inflight>>
      /\ UNCHANGED <<closed, toRelay, ppc, tpc, ntrig, nsent, offersSent, nonOffer,
                     answersSent, lateJoin>>
      /\ UNCHANGED relayVars
      /\ UNCHANGED sideVars

\* sender.py:85-102  one pass of `async for message in websocket`.  accept is
\* the transport's verdict on the description when the signaling state allows
\* an answer.  Only an installed answer leaves the loop (break, line 98);
\* every exception is logged and the loop reads on.
SenderHandle(accept) ==
  LET m == Head(toClient[Initiator])
      install == IsAnswer(m) /\ m.hasSdp /\ AcceptsAnswer(sig[Initiator]) /\ accept
  IN  /\ ppc[Initiator] = "loop"
      /\ toClient[Initiator] # <<>>
      /\ toClient' = [toClient EXCEPT ![Initiator] = Tail(@)]
      /\ gotBad' = [gotBad EXCEPT ![Initiator] = @ \/ ~WellFormed(m)]
      /\ IF install
         THEN /\ remote' = [remote EXCEPT ![Initiator] =
                              <<[type |-> m.type, sdp |-> m.sdp]>>]
              /\ recvd' = [recvd EXCEPT ![Initiator] = <<m.sdp>>]
              /\ sig' = [sig EXCEPT ![Initiator] = "stable"]
              /\ inflight' = 0
              /\ ppc' = [ppc EXCEPT ![Initiator] = "wait"]
         ELSE UNCHANGED <<remote, recvd, sig, inflight, ppc>>
      /\ UNCHANGED <<closed, toRelay, tpc, ntrig, nsent, offersSent, nonOffer,
                     answersSent, lateJoin>>
      /\ UNCHANGED relayVars
      /\ UNCHANGED sideVars

\* sender.py:85,104-106  the connection closed with a normal close code: the
\* async for ends and run() goes on to its indefinite wait
SenderLoopEnds ==
  /\ ppc[Initiator] = "loop"
  /\ toClient[Initiator] = <<>>
  /\ closed[Initiator]
  /\ ppc' = [ppc EXCEPT ![Initiator] = "wait"]
  /\ UNCHANGED <<closed, toRelay, toClient, nsent>>
  /\ UNCHANGED negVars
  /\ UNCHANGED relayVars
  /\ UNCHANGED sideVars

\* sender.py:85,108-109  the connection closed abnormally: the async for
\* raises ConnectionClosedError, caught by the outer except; run() returns
SenderLoopRaises ==
  /\ ppc[Initiator] = "loop"
  /\ toClient[Initiator] = <<>>
  /\ closed[Initiator]
  /\ PeerExit(Initiator)
  /\ UNCHANGED <<toRelay, ntrig, nsent, sig, remote, inflight,
                 offersSent, gotBad, seenVars>>
  /\ UNCHANGED relayVars
  /\ UNCHANGED sideVars

\* ------------------------------------------------ receiver.py (responder)
\* signaling_server.py:37-45  the relay is through with every offer the
\* sender has sent: none is unread in the sender's connection and the sender's
\* handler is not in its broadcast loop
OffersRelayed ==
  /\ offersSent > 0
  /\ toRelay[Initiator] = <<>>
  /\ hpc[Initiator] # "send"

\* mutant: a relay that keeps the last frame of a room and hands it to a
\* channel that joins
ReceiverConnectReplay ==
  /\ ppc[Responder] = "start"
  /\ StartHandler(Responder, TestRoom)
  /\ ppc' = [ppc EXCEPT ![Responder] = "recvOffer"]
  /\ lateJoin' = IF OffersRelayed THEN <<offersSent>> ELSE <<>>
  /\ toClient' = [toClient EXCEPT ![Responder] =
                    IF offersSent > 0 THEN <<OfferPayload>> ELSE @]
  /\ UNCHANGED <<closed, toRelay, nsent>>
  /\ UNCHANGED <<tpc, ntrig, sig, remote, inflight, offersSent, gotBad, nonOffer,
                 recvd, answersSent>>
  /\ UNCHANGED sideVars

\* receiver.py:37-42  connect (the relay accepts and joins: it appends the
\* channel to the room's list, signaling_server.py:23-28, and sends nothing),
\* wait for a frame
ReceiverConnect ==
  /\ ppc[Responder] = "start"
  /\ StartHandler(Responder, TestRoom)
  /\ ppc' = [ppc EXCEPT ![Responder] = "recvOffer"]
  /\ lateJoin' = IF OffersRelayed THEN <<offersSent>> ELSE <<>>
  /\ UNCHANGED <<closed, toRelay, toClient, nsent>>
  /\ UNCHANGED <<tpc, ntrig, sig, remote, inflight, offersSent, gotBad, nonOffer,
                 recvd, answersSent>>
  /\ UNCHANGED sideVars

\* RTCPeerConnection.setRemoteDescription(offer), receiver.py:60: accepted in
\* stable
AcceptsOffer(st) == st = "stable"

\* mutant: the receiver takes a message of any type for the offer
IsOfferAnyType(m) == m.valid

\* receiver.py:48  data.get("type") != "offer" -> return
IsOffer(m) == m.valid /\ m.type = "offer"

\* receiver.py:54-57  the description handed to setRemoteDescription
ReceivedOffer(m) == [type |-> m.type, sdp |-> remove_rtx_from_sdp(m.sdp)]

\* receiver.py:42-61  the one message the receiver reads.  json.loads raising,
\* a type other than offer, a missing sdp key or setRemoteDescription raising
\* all end run() (return at line 50, or the except at line 120).
ReceiverHandle(accept) ==
  LET m == Head(toClient[Responder])
      install == IsOffer(m) /\ m.hasSdp /\ AcceptsOffer(sig[Responder]) /\ accept
  IN  /\ ppc[Responder] = "recvOffer"
      /\ toClient[Responder] # <<>>
      /\ gotBad' = [gotBad EXCEPT ![Responder] = @ \/ ~WellFormed(m)]
      /\ nonOffer' = (~m.valid \/ m.type # "offer")
      /\ lateJoin' = <<>>
      /\ IF install
         THEN /\ remote' = [remote EXCEPT ![Responder] = <<ReceivedOffer(m)>>]
              /\ recvd' = [recvd EXCEPT ![Responder] = <<m.sdp>>]
              /\ sig' = [sig EXCEPT ![Responder] = "have-remote-offer"]
              /\ ppc' = [ppc EXCEPT ![Responder] = "answer"]
              /\ toClient' = [toClient EXCEPT ![Responder] = Tail(@)]
              /\ UNCHANGED <<closed, tpc>>
         ELSE /\ PeerExit(Responder)
              /\ UNCHANGED <<remote, recvd, sig>>
      /\ UNCHANGED <<toRelay, ntrig, nsent, inflight, offersSent, answersSent>>
      /\ UNCHANGED relayVars
      /\ UNCHANGED sideVars

\* receiver.py:42,120-121  recv raises ConnectionClosed
ReceiverRecvRaises ==
  /\ ppc[Responder] = "recvOffer"
  /\ toClient[Responder] = <<>>
  /\ closed[Responder]
  /\ PeerExit(Responder)
  /\ UNCHANGED <<toRelay, ntrig, nsent, sig, remote, inflight,
                 offersSent, gotBad, seenVars>>
  /\ UNCHANGED relayVars
  /\ UNCHANGED sideVars

\* receiver.py:65-68  createAnswer and setLocalDescription(answer) return
MakeAnswer ==
  /\ ppc[Responder] = "answer"
  /\ ppc' = [ppc EXCEPT ![Responder] = "sendAnswer"]
  /\ sig' = [sig EXCEPT ![Responder] = "stable"]
  /\ UNCHANGED <<closed, toRelay, toClient, tpc, ntrig, nsent, remote,
                 inflight, offersSent, gotBad, seenVars>>
  /\ UNCHANGED relayVars
  /\ UNCHANGED sideVars

\* receiver.py:73-118  the answer is sent, on_track is registered and run()
\* waits forever
SendAnswer ==
  /\ ppc[Responder] = "sendAnswer"
  /\ CanSend(Responder)
  /\ toRelay' = [toRelay EXCEPT ![Responder] = Append(@, AnswerPayload)]
  /\ ppc' = [ppc EXCEPT ![Responder] = "wait"]
  /\ answersSent' = answersSent + 1
  /\ UNCHANGED <<closed, toClient, nsent, tpc, ntrig, sig, remote, inflight,
                 offersSent, gotBad, nonOffer, recvd, lateJoin>>
  /\ UNCHANGED relayVars
  /\ UNCHANGED sideVars

\* receiver.py:65-74,120-121  createAnswer, setLocalDescription or send
\* raises: the outer except logs it and run() returns
AnswerFails ==
  /\ \/ ppc[Responder] = "answer"
     \/ ppc[Responder] = "sendAnswer" /\ ~CanSend(Responder)
  /\ PeerExit(Responder)
  /\ UNCHANGED <<toRelay, ntrig, nsent, sig, remote, inflight,
                 offersSent, gotBad, seenVars>>
  /\ UNCHANGED relayVars
  /\ UNCHANGED sideVars

\* ------------------------------------------- what run() can do next
\* sender.py:46-109  the steps of the sender's run() coroutine; the
\* event-driven on_negotiationneeded is a task of its own
SenderRunStep ==
  \/ SenderConnect
  \/ MakeOffer("run") \/ SendOffer("run") \/ OfferFails("run")
  \/ SenderHandle(TRUE) \/ SenderHandle(FALSE)
  \/ SenderLoopEnds \/ SenderLoopRaises

\* receiver.py:33-121  the steps of the receiver's run() coroutine
ReceiverRunStep ==
  \/ ReceiverConnect
  \/ ReceiverHandle(TRUE) \/ ReceiverHandle(FALSE) \/ ReceiverRecvRaises
  \/ MakeAnswer \/ SendAnswer \/ AnswerFails

RunStep(c) == IF c = Initiator THEN SenderRunStep ELSE ReceiverRunStep

\* ------------------------------------------------------ display tasks
\* a display task that has just been scheduled: it awaits track.recv()
NewTask(impl) == [impl |-> impl, pc |-> "recv", how |-> "", released |-> FALSE]

\* the tasks scheduled to run coroutine impl
Started(impl) == {i \in 1..Len(disp) : disp[i].impl = impl}

\* receiver.py:79-114  the RTCPeerConnection emits a track event and on_track
\* runs: for the video track it schedules display_video(), whatever it has
\* scheduled before; for another kind it only logs.  The handler is
\* registered when run() reaches its wait.
TrackEvent(kind) ==
  /\ ppc[Responder] = "wait"
  /\ ntrack < MaxTrackEvents
  /\ ntrack' = ntrack + 1
  /\ disp' = IF kind = "video" THEN Append(disp, NewTask("display_video")) ELSE disp
  /\ UNCHANGED <<progVars, watched, window, fcall, lcall>>

\* video_consumer.py:14-18  the use the module documents: a track handler
\* schedules consume_video(track)
ConsumeTrack ==
  /\ ppc[Responder] = "wait"
  /\ Cardinality(Started("consume_video")) < MaxConsumers
  /\ disp' = Append(disp, NewTask("consume_video"))
  /\ UNCHANGED <<progVars, watched, ntrack, window, fcall, lcall>>

\* receiver.py:92-103, video_consumer.py:45-54  a frame arrives, imshow puts
\* it in the window, waitKey sees no 'q'; the task awaits the next frame
ShowFrame(i) ==
  /\ i \in 1..Len(disp)
  /\ disp[i].pc = "recv"
  /\ window' = TRUE
  /\ UNCHANGED <<progVars, watched, ntrack, disp, fcall, lcall>>

\* receiver.py:89-108  display_video leaves its loop by break on 'q' and on
\* an Exception, and calls destroyAllWindows after the loop; CancelledError
\* is no Exception, so a cancelled task skips that call
DisplayVideoReleases(how) == how \in {"quit", "error"}

\* video_consumer.py:42-62  consume_video calls destroyAllWindows in a
\* finally clause
ConsumeVideoReleases(how) == how \in {"quit", "error", "cancel"}

\* receiver.py:92-108, video_consumer.py:42-62  a display task stops: the
\* user presses 'q' on a frame just shown, track.recv() raises, or the task
\* is cancelled at its await
StopDisplay(i, how) ==
  LET releases == IF disp[i].impl = "display_video"
                  THEN DisplayVideoReleases(how)
                  ELSE ConsumeVideoReleases(how)
  IN  /\ i \in 1..Len(disp)
      /\ disp[i].pc = "recv"
      /\ disp' = [disp EXCEPT ![i] = [impl |-> @.impl, pc |-> "done", how |-> how,
                                      released |-> releases]]
      /\ window' = IF releases THEN FALSE ELSE window
      /\ UNCHANGED <<progVars, watched, ntrack, fcall, lcall>>

\* ---------------------------------------------------- specifications
\* The relay's own steps: the event loop runs each of them eventually.
RelayStep == \E c \in Chan : Receive(c) \/ SendDone(c) \/ Disconnected(c)

\* The relay's failures: a send to a dead connection raising, a task
\* cancelled.
RelayFail == \E c \in Chan : SendRaises(c) \/ Cancelled(c)

\* Any clients: they connect to any room, send, read and close as they like.
ClientStep ==
  \/ \E c \in Chan, rid \in RoomIds : Open(c, rid)
  \/ \E c \in Chan, m \in Frames : ClientSend(c, m)
  \/ \E c \in Chan : Kill(c)

\* The relay under any clients.
Next == RelayStep \/ RelayFail \/ ClientStep

Spec == Init /\ [][Next]_vars

\* The event loop runs every relay task that can run, and a send_text or a
\* receive_text that can return does return: weak fairness of the relay's own
\* steps.  What clients do, and failures, stay as they like.
RelayFairness ==
  \A c \in Chan :
    WF_vars(Receive(c)) /\ WF_vars(SendDone(c)) /\ WF_vars(Disconnected(c))

\* any clients of one room
RoomClientStep ==
  \/ \E c \in Chan : Open(c, TestRoom)
  \/ \E c \in Chan, m \in Frames : ClientSend(c, m)
  \/ \E c \in Chan : Kill(c)

RoomNext == RelayStep \/ RelayFail \/ RoomClientStep

FairRelay == Init /\ [][RoomNext]_vars /\ RelayFairness

\* A sender and a receiver started with the same --room, and a third client
\* in that room.
SenderStep ==
  \/ SenderConnect
  \/ \E task \in {"run", "event"} : MakeOffer(task) \/ SendOffer(task)
  \/ SenderHandle(TRUE)

ReceiverStep == ReceiverConnect \/ ReceiverHandle(TRUE) \/ MakeAnswer \/ SendAnswer

OtherStep ==
  \/ Open(Other, TestRoom)
  \/ \E m \in OtherMsgs : ClientSend(Other, m)

\* the connection of a peer closing under it, the transport raising, the
\* third client closing.  The sender and the receiver end through their own
\* code only.
SessionFail ==
  \/ SenderLoopEnds \/ SenderLoopRaises \/ ReceiverRecvRaises
  \/ \E task \in {"run", "event"} : OfferFails(task)
  \/ AnswerFails
  \/ SenderHandle(FALSE) \/ ReceiverHandle(FALSE)
  \/ Kill(Other)

SessionNext ==
  RelayStep \/ RelayFail \/ SenderStep \/ ReceiverStep \/ Trigger \/ OtherStep \/ SessionFail

Session == Init /\ [][SessionNext]_vars

\* A sender and a receiver alone in the room, nothing failing.  Each task of
\* an asyncio event loop that can run is run eventually, and a frame written
\* to an open connection arrives: weak fairness of every step.  Events
\* (Trigger) and the moment a process is started are the environment's.
LiveNext ==
  \/ \E c \in {Initiator, Responder} : Receive(c) \/ SendDone(c)
  \/ SenderConnect
  \/ \E task \in {"run", "event"} : MakeOffer(task) \/ SendOffer(task)
  \/ SenderHandle(TRUE)
  \/ ReceiverConnect \/ ReceiverHandle(TRUE) \/ MakeAnswer \/ SendAnswer
  \/ Trigger

LiveFairness ==
  /\ \A c \in {Initiator, Responder} : WF_vars(Receive(c)) /\ WF_vars(SendDone(c))
  /\ \A task \in {"run", "event"} : WF_vars(MakeOffer(task)) /\ WF_vars(SendOffer(task))
  /\ WF_vars(SenderConnect) /\ WF_vars(ReceiverConnect)
  /\ WF_vars(SenderHandle(TRUE)) /\ WF_vars(ReceiverHandle(TRUE))
  /\ WF_vars(MakeAnswer) /\ WF_vars(SendAnswer)

FairSession == Init /\ [][LiveNext]_vars /\ LiveFairness

\* A sender and a receiver alone in the room, nothing failing in the
\* negotiation; track events, frames, key presses, read errors and
\* cancellations of display tasks come as they like.
DisplayStep ==
  \/ \E kind \in {"video", "audio"} : TrackEvent(kind)
  \/ ConsumeTrack
  \/ \E i \in 1..(MaxTrackEvents + MaxConsumers) : ShowFrame(i)
  \/ \E i \in 1..(MaxTrackEvents + MaxConsumers), how \in {"quit", "error", "cancel"} :
       StopDisplay(i, how)

ViewerNext == LiveNext \/ DisplayStep

Viewer == Init /\ [][ViewerNext]_vars

\* The relay with the clients of one room, the deliveries from one of them
\* to another logged.  The relay treats every channel alike and the clients
\* join in any order, so the sender of the logged pair is fixed.
FifoInit ==
  /\ Start
  /\ fcall = NoCall
  /\ lcall = NoCall
  /\ watched \in {<<Other, r>> : r \in Chan \ {Other}}

Fifo == FifoInit /\ [][RoomNext]_vars

\* ------------------------------------------------ the SDP filter alone
\* the pieces documents are made of: a chunk of other text, the chunks the
\* filter looks for, and the line terminators
Pieces == {"v=0", RtxLine, AptLine, CR, LF}
Docs == UNION {[1..n -> Pieces] : n \in 0..MaxDocLen}

\* receiver.py:54  any text may arrive as data["sdp"]
FilterInit ==
  /\ Start
  /\ watched = <<>>
  /\ lcall = NoCall
  /\ fcall \in {[state |-> "ready", arg |-> d, ret |-> <<>>, again |-> <<>>] : d \in Docs}

\* receiver.py:54  filtered_sdp = remove_rtx_from_sdp(data["sdp"])
CallFilter ==
  /\ fcall.state = "ready"
  /\ fcall' = [fcall EXCEPT !.state = "once", !.ret = remove_rtx_from_sdp(fcall.arg)]
  /\ UNCHANGED <<progVars, watched, ntrack, disp, window, lcall>>

\* the filter applied to its own output
CallFilterAgain ==
  /\ fcall.state = "once"
  /\ fcall' = [fcall EXCEPT !.state = "twice", !.again = remove_rtx_from_sdp(fcall.ret)]
  /\ UNCHANGED <<progVars, watched, ntrack, disp, window, lcall>>

FilterNext == CallFilter \/ CallFilterAgain

FilterSpec == FilterInit /\ [][FilterNext]_vars

\* ------------------------------------------- the finally block alone
\* member lists: channels in some order, none twice
Lists ==
  {s \in UNION {[1..n -> Chan] : n \in 1..Cardinality(Chan)} :
     \A i, j \in 1..Len(s) : i # j => s[i] # s[j]}

\* the registries the relay can hold: no empty list, a channel in one room
Registries ==
  {rs \in UNION {[D -> Lists] : D \in SUBSET RoomIds} :
     \A r, q \in DOMAIN rs : r # q => Range(rs[r]) \cap Range(rs[q]) = {}}

\* signaling_server.py:53  the finally block is entered with any registry,
\* room id and connection
LeaveInit ==
  /\ Start
  /\ watched = <<>>
  /\ fcall = NoCall
  /\ lcall \in {[state |-> "ready", rs |-> rs, rid |-> rid, ws |-> ws,
                  after |-> rs, raised |-> FALSE] :
                   rs \in Registries, rid \in RoomIds, ws \in Chan}

\* signaling_server.py:53-61  the finally block runs
CallLeave ==
  /\ lcall.state = "ready"
  /\ lcall' = [lcall EXCEPT
                 !.state = "done",
                 !.after = Leave(lcall.rs, lcall.rid, lcall.ws),
                 !.raised = DelRaises(RemoveMember(lcall.rs, lcall.rid, lcall.ws),
                                      lcall.rid)]
  /\ UNCHANGED <<progVars, watched, ntrack, disp, window, fcall>>

LeaveNext == CallLeave

LeaveSpec == LeaveInit /\ [][LeaveNext]_vars

\* ------------------------------------------------------------ claims
Joined(c) == hpc[c] \in {"recv", "send"}

\* spec 4.3: connected.  The sender has installed an answer and left its
\* loop; the receiver has installed the offer and sent its answer.
Connected(c) == remote[c] # <<>> /\ ppc[c] = "wait"

\* C1: in every reachable state each room's member list holds exactly the
\* channels that have joined that room and not yet left, each exactly once,
\* and no room is in the registry with an empty member list.
C1_RoomsHoldTheJoined ==
  /\ DOMAIN rooms \subseteq RoomIds
  /\ \A r \in DOMAIN rooms : rooms[r] # <<>>
  /\ \A r \in RoomIds :
       /\ Range(Members(rooms, r)) = {c \in Chan : Joined(c) /\ hroom[c] = r}
       /\ Len(Members(rooms, r)) = Cardinality(Range(Members(rooms, r)))

\* a channel left a room where another stays, and a room that emptied is gone
C1_Witness ==
  /\ \E c, d \in Chan : hpc[c] = "done" /\ Joined(d) /\ hroom[c] = hroom[d]
  /\ \E e \in Chan : hpc[e] = "done" /\ hroom[e] \notin DOMAIN rooms

\* C2: a message the relay received from a channel is never sent back to that
\* channel and never sent to a channel registered under another room.
C2_NoEchoNoOtherRoom ==
  \A c \in Chan : hpc[c] = "send" => htgt[c] # c /\ hroom[htgt[c]] = hroom[c]

\* a task is sending while a channel is registered under another room
C2_Witness ==
  \E c, d \in Chan : hpc[c] = "send" /\ Joined(d) /\ hroom[d] # hroom[c]

\* C3: a broadcast reaches every other channel that stays a member of the room
\* for the whole broadcast, whatever joins or leaves while it is suspended.
C3_NoMemberSkipped == \A c \in Chan : hpc[c] = "recv" => hmissed[c] = {}

\* C4: a task that joined a room removes its own channel from it exactly once
\* when its loop exits, by disconnect, error or cancellation; no membership
\* entry outlives its task.
C4_LeavesExactlyOnce ==
  \A c \in Chan :
    /\ hpc[c] = "done" =>
         /\ hleft[c] = 1
         /\ hexit[c] \in {"disconnect", "send_error", "cancel"}
         /\ \A r \in DOMAIN rooms : c \notin Range(rooms[r])
    /\ hpc[c] # "done" => hleft[c] = 0

\* tasks have ended in each of the three ways
C4_Witness ==
  \E c, d, e \in Chan :
    hexit[c] = "disconnect" /\ hexit[d] = "send_error" /\ hexit[e] = "cancel"

\* C5: when sending a broadcast to one member fails, the relay still delivers
\* it to every remaining member, and the sender's task goes on relaying.
C5_FailedSendDoesNotAbort ==
  \A c \in Chan : hfailed[c] # {} => hpc[c] # "done" /\ hmissed[c] = {}

\* C6: a failure or disconnect of one peer's channel never ends the relay
\* task of another peer nor removes it from the registry: a task ends only on
\* the disconnect of its own channel or on its own cancellation.
C6_NoCrossTermination ==
  \A c \in Chan : hpc[c] = "done" => hexit[c] \in {"disconnect", "cancel"}

\* the relay has broadcast the sender's offer to the receiver, which waits
OfferReachedResponder ==
  /\ ppc[Responder] = "recvOffer"
  /\ toClient[Responder] # <<>>
  /\ Head(toClient[Responder]) = OfferPayload

BothConnected == Connected(Initiator) /\ Connected(Responder)

\* C7: with sender and receiver in the same room, once the sender's offer has
\* been relayed to the receiver, both peers reach connected (fair scheduling,
\* no failure).
C7_RoundTripConnects == OfferReachedResponder ~> BothConnected

C7_Witness == BothConnected /\ inflight = 0 /\ sig[Initiator] = "stable"

\* C8: for either role, an inbound message that is not valid JSON, lacks type
\* or sdp, or has a type outside {offer, answer} drives the peer to failed
\* (session ended) and never to connected.
C8_MalformedEndsSession ==
  \A c \in {Initiator, Responder} :
    gotBad[c] => ppc[c] = "exited" /\ remote[c] = <<>>

\* offers created (local description set) or sent, and not yet answered
OffersUnderWay ==
  inflight + (IF ppc[Initiator] = "sendOffer" THEN 1 ELSE 0)
           + (IF tpc = "sendOffer" THEN 1 ELSE 0)

\* C9: offers are serialized on the sender: at most one offer is created or
\* sent and not yet answered at any time.
C9_OneOfferInFlight == OffersUnderWay <= 1

\* a step in which the sender's loop takes a message from its connection
SenderReads ==
  /\ ppc[Initiator] = "loop"
  /\ toClient[Initiator] # <<>>
  /\ toClient'[Initiator] = Tail(toClient[Initiator])

\* C10: on the sender, a message whose tag is not answer, and an answer that
\* arrives when no offer is out (offer_sent does not hold), is ignored: no
\* remote description is installed, the negotiation state is unchanged and
\* the session goes on.
C10_StrayMessagesIgnored ==
  [][(SenderReads /\ (~IsAnswer(Head(toClient[Initiator])) \/ inflight = 0))
       => /\ remote'[Initiator] = remote[Initiator]
          /\ sig'[Initiator] = sig[Initiator]
          /\ ppc'[Initiator] = "loop"]_vars

\* C11: when the first message the receiver reads while it awaits the offer is
\* tagged anything other than offer, the receiver fails: it installs no remote
\* description, sends no answer, and its session ends.
C11_NonOfferFails ==
  nonOffer =>
    /\ ppc[Responder] = "exited"
    /\ closed[Responder]
    /\ remote[Responder] = <<>>
    /\ sig[Responder] = "stable"
    /\ answersSent = 0

\* the receiver read a well-formed answer where it awaited the offer
C11_Witness == nonOffer /\ ~gotBad[Responder] /\ ppc[Responder] = "exited"

\* C12: every session description a peer installs as its remote description,
\* the receiver an offer or the sender an answer, is the output of the SDP
\* filter applied to the description it received.
C12_InstalledIsFiltered ==
  \A c \in {Initiator, Responder} :
    remote[c] # <<>> => remote[c][1].sdp = remove_rtx_from_sdp(recvd[c][1])

\* the lines of text d that say something and that the filter has no reason
\* to remove
Unrelated(d) ==
  SelectSeq(splitlines(d), LAMBDA line : line # <<>> /\ ~IsRtxLine(line))

\* C13: the SDP filter is idempotent, its output holds no line advertising
\* video/rtx or apt=, and it removes no line unrelated to the retransmission
\* codec.
C13_FilterIdempotent ==
  /\ fcall.state \in {"once", "twice"} =>
       /\ \A i \in 1..Len(fcall.ret) : fcall.ret[i] \notin {RtxLine, AptLine}
       /\ Unrelated(fcall.ret) = Unrelated(fcall.arg)
  /\ fcall.state = "twice" => fcall.again = fcall.ret

\* text d without its retransmission lines, every other line with the
\* terminator it had
RECURSIVE CutRtxLines(_)
CutRtxLines(d) ==
  IF d = <<>> THEN <<>>
  ELSE LET k == FirstBreak(d)
           n == IF k = 0 THEN Len(d) ELSE k + BreakLen(d, k) - 1
           line == IF k = 0 THEN d ELSE SubSeq(d, 1, k - 1)
       IN  (IF IsRtxLine(line) THEN <<>> ELSE SubSeq(d, 1, n))
             \o CutRtxLines(SubSeq(d, n + 1, Len(d)))

\* C14: the SDP filter keeps the retained lines in their order and keeps the
\* document's line endings: every retained line has the terminator it had,
\* the last line's included, so a document without retransmission lines comes
\* back identical.
C14_LineEndingsKept ==
  fcall.state \in {"once", "twice"} => fcall.ret = CutRtxLines(fcall.arg)

\* C15: for channels S and R of one room, the frames of S the relay delivers
\* to R arrive in the order S sent them and none arrives twice, however the
\* broadcasts of other channels interleave.
C15_FifoPerPair == \A i, j \in 1..Len(dlog) : i < j => dlog[i] < dlog[j]

\* both frames of S reached R, the second while another channel's broadcast
\* was under way
C15_Witness ==
  /\ dlog = <<1, 2>>
  /\ \E c \in Chan \ {watched[1]} : hpc[c] = "send" /\ htgt[c] = watched[2]

\* C16: on the receiver the video track is handed to the display exactly
\* once: when the track event fires more than once for it, only one display
\* task is started.
C16_OneDisplayPerTrack == Cardinality(Started("display_video")) <= 1

\* the finally block was run for a room the registry lacks, or for a channel
\* that is not in the room's list
RedundantLeave ==
  /\ lcall.state = "done"
  /\ \/ lcall.rid \notin DOMAIN lcall.rs
     \/ lcall.ws \notin Range(Members(lcall.rs, lcall.rid))

InRoom(c) == \E r \in DOMAIN rooms : c \in Range(rooms[r])

\* C18: whenever a channel to the relay closes, the relay eventually removes
\* it from its room (fair scheduling), also when the channel's task is
\* suspended in the middle of a broadcast at the time of the close.
C18_ClosedChannelRemoved ==
  \A c \in Chan : (closed[c] /\ InRoom(c)) ~> ~InRoom(c)

\* one channel closed and its task, meeting the disconnect, has removed it;
\* another has closed while its task is suspended in a broadcast
C18_Witness ==
  \E c \in Chan :
    /\ hexit[c] = "disconnect"
    /\ ~InRoom(c)
    /\ \E d \in Chan \ {c} : closed[d] /\ hpc[d] = "send" /\ InRoom(d)

\* C19: when the signaling channel of a peer closes while the peer is in a
\* wait, the indefinite wait after the negotiation included, the wait is
\* cancelled and the session terminates: a peer whose channel is closed and
\* whose run() has not returned always has a step to take.
C19_ClosedChannelEndsWait ==
  \A c \in {Initiator, Responder} :
    (closed[c] /\ ppc[c] \notin {"start", "exited"}) => ENABLED RunStep(c)

\* C20: every display task, the receiver's display_video and consume_video,
\* destroys the display window on every way it stops: the user quitting, an
\* error while reading a frame, and cancellation.
C20_DisplayReleased ==
  \A i \in 1..Len(disp) : disp[i].pc = "done" => disp[i].released

\* a step in which the sender's loop reads an answer with an sdp and the
\* installation fails: setRemoteDescription raised
SenderRejected ==
  /\ SenderReads
  /\ IsAnswer(Head(toClient[Initiator]))
  /\ Head(toClient[Initiator]).hasSdp
  /\ remote'[Initiator] = remote[Initiator]

\* a step in which the receiver reads an offer with an sdp and the
\* installation fails
ReceiverRejected ==
  /\ ppc[Responder] = "recvOffer"
  /\ toClient[Responder] # <<>>
  /\ ppc'[Responder] # "recvOffer"
  /\ IsOffer(Head(toClient[Responder]))
  /\ Head(toClient[Responder]).hasSdp
  /\ remote'[Responder] = remote[Responder]

\* C21: when the transport rejects a received session description (installing
\* it raises), the peer's session terminates, in either role: the peer neither
\* stays in its message loop nor goes on to connected.
C21_RejectionEndsSession ==
  [][/\ SenderRejected => ppc'[Initiator] = "exited"
     /\ ReceiverRejected => ppc'[Responder] = "exited"]_vars

\* C22: a peer is at its indefinite wait for teardown only after its session
\* reached connected: the sender is never there without an installed answer,
\* also not when the signaling channel closed gracefully before any answer.
C22_WaitOnlyWhenConnected ==
  \A c \in {Initiator, Responder} : ppc[c] = "wait" => remote[c] # <<>>

\* spec 4.3: connected to renegotiating.  Both peers are connected and the
\* sender has made a new local offer.
Renegotiating == BothConnected /\ sig[Initiator] = "have-local-offer"

\* C23: after both peers are connected, a renegotiation trigger on the sender
\* starts a new round that completes: the receiver consumes the new offer, the
\* sender installs the new answer and is back at connected (fair scheduling,
\* no failure).
C23_RenegotiationCompletes ==
  Renegotiating ~> (BothConnected /\ sig[Initiator] = "stable")

C25_CleanupFindsRoom ==
  \A c \in Chan :
    /\ Joined(c) =>
         /\ hroom[c] \in DOMAIN rooms
         /\ c \in Range(rooms[hroom[c]])
         /\ ~DelRaises(RemoveMember(rooms, hroom[c], c), hroom[c])
    /\ hexit[c] # "keyerror"

\* three tasks of one room have run their finally blocks one after another,
\* the last of them deleting the room
C25_Witness ==
  /\ \A c \in Chan : hpc[c] = "done" /\ hroom[c] = TestRoom
  /\ TestRoom \notin DOMAIN rooms

\* in this step peer c reads nothing: its unread frames stay where they are,
\* or go when its run() returns and the connection is dropped
ReadsNothing(c) ==
  \/ ppc'[c] = "exited"
  \/ /\ Len(toClient'[c]) >= Len(toClient[c])
     /\ SubSeq(toClient'[c], 1, Len(toClient[c])) = toClient[c]

\* C26: over one session a peer installs at most one remote description and
\* the receiver sends at most one answer: once a description is installed the
\* peer reads no further message, so what else the relay sends it, from a
\* third member of the room or in a later round, is never acted on.
C26_OneDescriptionOneAnswer ==
  [][/\ \A c \in {Initiator, Responder} :
          remote[c] # <<>> => remote'[c] = remote[c] /\ ReadsNothing(c)
     /\ answersSent' <= 1]_vars

\* both peers are connected, the receiver has sent its answer, and each has
\* a further frame waiting unread
C26_Witness ==
  /\ BothConnected
  /\ answersSent = 1
  /\ toClient[Initiator] # <<>>
  /\ toClient[Responder] # <<>>
  /\ Joined(Other)

====
